---- MODULE Spec2Model ----
(***************************************************************************)
(* Model of pyctlops.FDCT / FDCT2D / FDCT3D (src/pyctlops/pyctlops.py):    *)
(* construction (axis normalisation, slice enumeration, operator shape),  *)
(* forward apply (_matvec) and adjoint apply (_rmatvec).                   *)
(*                                                                         *)
(* Arrays are records [shape, data] with data the row-major flattening.   *)
(* Axis numbers and multi-indices are 0-based as in the source; TLA+      *)
(* sequences are 1-based, so dims[d + 1] is the source's dims[d].         *)
(* The curvelet backend (pyct) is an external library: it is modelled by  *)
(* a small stand-in transform with two ragged bands.                      *)
(***************************************************************************)
EXTENDS Integers, Sequences, FiniteSets, TLC

\* ------------------------------------------------------------- bounds
\* Largest number of axes of a volume.
MaxNdim == 4
\* Largest extent of one axis.
MaxDim == 3
\* Largest number of elements of a volume.
MaxVolume == 6
\* Largest number of forward/adjoint calls on one operator.
MaxCalls == 2

\* slice(None), the colon of an index expression.
SliceNone == -1

\* ---------------------------------------------------- sequence helpers
RECURSIVE Prod(_)
\* np.prod of a sequence of integers (1 for the empty sequence).
Prod(s) == IF s = <<>> THEN 1 ELSE Head(s) * Prod(Tail(s))

RECURSIVE SumSeq(_)
\* Built-in sum over a sequence of integers.
SumSeq(s) == IF s = <<>> THEN 0 ELSE Head(s) + SumSeq(Tail(s))

RECURSIVE Flatten(_)
\* Concatenation of a sequence of sequences, in order.
Flatten(ss) == IF ss = <<>> THEN <<>> ELSE Head(ss) \o Flatten(Tail(ss))

Reverse(s) == [k \in 1..Len(s) |-> s[Len(s) + 1 - k]]

\* min() of a non-empty sequence of integers.
MinOf(s) == CHOOSE m \in {s[k] : k \in 1..Len(s)} : \A k \in 1..Len(s) : m <= s[k]

\* Whether value v occurs in sequence s (Python's "in").
InSeq(v, s) == \E k \in 1..Len(s) : s[k] = v

\* ------------------------------------------------------- numpy arrays
RECURSIVE Unravel(_, _)
\* Row-major multi-index (0-based) of linear offset k (0-based) in shape.
Unravel(k, shape) ==
  IF shape = <<>> THEN <<>>
  ELSE LET p == Prod(Tail(shape))
       IN  <<k \div p>> \o Unravel(k % p, Tail(shape))

RECURSIVE Ravel(_, _)
\* Row-major linear offset (0-based) of multi-index m in shape.
Ravel(m, shape) ==
  IF shape = <<>> THEN 0
  ELSE Head(m) * Prod(Tail(shape)) + Ravel(Tail(m), Tail(shape))

\* x.reshape(dims): the same buffer seen with another shape.
Reshape(data, shape) == [shape |-> shape, data |-> data]

\* arr.ravel(): the row-major flattening.
RavelArr(arr) == arr.data

\* np.zeros(shape).
Zeros(shape) == [shape |-> shape, data |-> [k \in 1..Prod(shape) |-> 0]]

\* Number of sliced (colon) positions of index among its first a entries.
SliceRank(index, a) == Cardinality({b \in 1..a : index[b] = SliceNone})

RECURSIVE KeptShape(_, _)
\* Shape selected by a basic index: the extents of the sliced axes, in the
\* array's own axis order.
KeptShape(shape, index) ==
  IF shape = <<>> THEN <<>>
  ELSE (IF Head(index) = SliceNone THEN <<Head(shape)>> ELSE <<>>)
       \o KeptShape(Tail(shape), Tail(index))

\* Full multi-index addressed by sub-index sub of the selection index.
FullIdx(index, sub) ==
  [a \in 1..Len(index) |->
     IF index[a] = SliceNone THEN sub[SliceRank(index, a)] ELSE index[a]]

\* arr[index] for a tuple index of integers and slice(None).
GetItem(arr, index) ==
  LET rshape == KeptShape(arr.shape, index)
  IN  [shape |-> rshape,
       data  |-> [k \in 1..Prod(rshape) |->
                    arr.data[Ravel(FullIdx(index, Unravel(k - 1, rshape)),
                                   arr.shape) + 1]]]

\* Whether an array of shape v can be assigned to a region of shape r:
\* extra leading axes of v must have extent 1, aligned axes must match or
\* have extent 1 (numpy broadcasting on assignment).
Broadcastable(v, r) ==
  LET d == Len(v) - Len(r)
  IN  \A t \in 1..Len(v) :
        IF t - d < 1 THEN v[t] = 1 ELSE v[t] = 1 \/ v[t] = r[t - d]

\* Multi-index into a value of shape v for region sub-index sub.
BroadcastIdx(v, r, sub) ==
  LET d == Len(v) - Len(r)
  IN  [t \in 1..Len(v) |->
         IF t - d < 1 THEN 0 ELSE IF v[t] = 1 THEN 0 ELSE sub[t - d]]

\* Whether multi-index m of the array lies in the region arr[index].
Selects(index, m) ==
  \A a \in 1..Len(index) : index[a] = SliceNone \/ index[a] = m[a]

\* The entries of m at the sliced positions of index.
SubIdx(index, m) ==
  LET n == SliceRank(index, Len(index))
  IN  [j \in 1..n |->
         m[CHOOSE a \in 1..Len(index) :
             index[a] = SliceNone /\ SliceRank(index, a) = j]]

\* arr[index] = val, for val broadcastable to the region.
SetItem(arr, index, val) ==
  LET rshape == KeptShape(arr.shape, index)
  IN  [shape |-> arr.shape,
       data  |-> [p \in 1..Len(arr.data) |->
                    LET m == Unravel(p - 1, arr.shape)
                    IN  IF Selects(index, m)
                        THEN val.data[Ravel(BroadcastIdx(val.shape, rshape,
                                                         SubIdx(index, m)),
                                            val.shape) + 1]
                        ELSE arr.data[p]]]

\* ------------------------------------------------- the pyct backend
\* Band shapes the transform reports for slices of `shape` (FDCT.sizes),
\* one sequence of band shapes per scale: a coarse scale with one band of
\* a single coefficient and a fine scale with one band of the slice's
\* shape. The bands are ragged, as the real transform's are.
BackendSizes(shape) == << << [k \in 1..Len(shape) |-> 1] >>, << shape >> >>

\* Whether the transform configured for shape cfg takes the array slice.
\* A slice of the configured shape is always taken. What the native
\* transform does with any other array is outside its interface: a strict
\* build rejects it, a lenient one reads the buffer as if it had the
\* configured shape, which needs as many elements.
BackendAccepts(cfg, slice, strict) ==
  \/ slice.shape = cfg
  \/ ~strict /\ Len(slice.data) = Prod(cfg)

\* FDCT.fwd: the coefficient vector of one slice, coarse band first.
BackendFwd(slice) == <<SumSeq(slice.data)>> \o Reverse(slice.data)

\* FDCT.inv: the array of the configured shape for one coefficient vector.
BackendInv(cfg, c) == Reshape(Reverse(Tail(c)), cfg)

\* ------------------------------------------------------- construction
\* Smallest e >= 0 with 2^e >= m: ceil(log2(m)) for m >= 1.
CeilLog2(m) == CHOOSE e \in 0..m : 2^e >= m /\ \A f \in 0..(e - 1) : 2^f < m

\* normalize_axis_index accepts d in [-ndim, ndim).
AxisInRange(d, ndim) == -ndim <= d /\ d < ndim

\* A faulty normalisation, which mirrors a negative axis instead of
\* counting it from the end; C6 must tell it from the code's.
NormalizeAxisMirrored(d, ndim) == IF d < 0 THEN -d - 1 ELSE d

\* normalize_axis_index(d, ndim) for an axis in range.
NormalizeAxisIndex(d, ndim) == IF d < 0 THEN d + ndim ELSE d

\* range(n)
PyRange(n) == [k \in 1..n |-> k - 1]

RECURSIVE Product(_)
\* list(itertools.product(*ls)): tuples in lexicographic order of the
\* positions in the lists, the last list varying fastest.
Product(ls) ==
  IF ls = <<>> THEN << <<>> >>
  ELSE LET rest == Product(Tail(ls))
       IN  Flatten([h \in 1..Len(Head(ls)) |->
                      [t \in 1..Len(rest) |-> <<Head(ls)[h]>> \o rest[t]]])

\* iterable_axes: TRUE for the axes that are not transformed.
IterableAxes(ndim, dirs) == [i \in 1..ndim |-> ~InSeq(i - 1, dirs)]

\* np.prod(np.array(dims)[iterable_axes])
NdimIterable(dims, iterable_axes) ==
  Prod([a \in 1..Len(dims) |-> IF iterable_axes[a] THEN dims[a] ELSE 1])

\* A faulty enumeration, which stops one index short on every iterable
\* axis; C10 must tell it from the code's.
BuildIteratorShort(dims, iterable_axes) ==
  Product([a \in 1..Len(dims) |->
             IF iterable_axes[a] THEN PyRange(dims[a] - 1) ELSE <<SliceNone>>])

\* The list of slice indexers built from dims and iterable_axes.
BuildIterator(dims, iterable_axes) ==
  Product([a \in 1..Len(dims) |->
             IF iterable_axes[a] THEN PyRange(dims[a]) ELSE <<SliceNone>>])

\* sum(np.prod(j) for i in sizes for j in i)
OutputLen(sizes) ==
  LET bands == Flatten(sizes)
  IN  SumSeq([k \in 1..Len(bands) |-> Prod(bands[k])])

\* A constructor that raised.
Raised(e) == [err |-> e, op |-> <<>>]

\* A faulty count check, which lets a single axis through; C5 must tell it
\* from the code's.
SupportedCountUpTo3(dirs) == Len(dirs) \in {1, 2, 3}

\* Whether FDCT.__init__ has a transform for this many axes: ct.fdct2 for
\* two, ct.fdct3 for three.
SupportedCount(dirs) == Len(dirs) \in {2, 3}

\* FDCT.__init__(dims, dirs) with the default nbscales.
FDCT_init(dims, dirs) ==
  IF ~SupportedCount(dirs) THEN Raised("NotImplementedError")
  ELSE
  LET ndim == Len(dims) IN
  IF \E k \in 1..Len(dirs) : ~AxisInRange(dirs[k], ndim) THEN Raised("AxisError")
  ELSE
  LET ndirs == [k \in 1..Len(dirs) |-> NormalizeAxisIndex(dirs[k], ndim)]
      input_shape_2d == [k \in 1..Len(ndirs) |-> dims[ndirs[k] + 1]]
      nbscales == CeilLog2(MinOf(input_shape_2d)) - 3
      sizes == BackendSizes(input_shape_2d)
      iterable_axes == IterableAxes(ndim, ndirs)
      ndim_iterable == NdimIterable(dims, iterable_axes)
      output_len == OutputLen(sizes)
  IN  [err |-> "none",
       op  |-> << [dims |-> dims,
                   dirs |-> ndirs,
                   input_shape_2d |-> input_shape_2d,
                   nbscales |-> nbscales,
                   iterator |-> BuildIterator(dims, iterable_axes),
                   output_len |-> output_len,
                   shape |-> <<ndim_iterable * output_len, Prod(dims)>>] >>]

\* FDCT2D.__init__
FDCT2D_init(dims, dirs) ==
  IF Len(dirs) # 2 THEN Raised("ValueError") ELSE FDCT_init(dims, dirs)

\* FDCT3D.__init__
FDCT3D_init(dims, dirs) ==
  IF Len(dirs) # 3 THEN Raised("ValueError") ELSE FDCT_init(dims, dirs)

\* The constructor of class cls.
Init_of(cls, dims, dirs) ==
  CASE cls = "FDCT2D" -> FDCT2D_init(dims, dirs)
    [] cls = "FDCT3D" -> FDCT3D_init(dims, dirs)
    [] OTHER -> FDCT_init(dims, dirs)

\* ------------------------------------------------- forward and adjoint
\* A faulty segment, which leaves out its first position; C7 must tell it
\* from the code's.
SegmentWithGap(i, n) == (i * n + 2)..((i + 1) * n)

\* The 1-based positions of fwd_out[i*n:(i+1)*n].
Segment(i, n) == (i * n + 1)..((i + 1) * n)

\* x[i*n:(i+1)*n]
ReadSegment(x, i, n) == [k \in 1..n |-> x[i * n + k]]

\* buf[i*n:(i+1)*n] = c
WriteSegment(buf, i, n, c) ==
  [p \in 1..Len(buf) |-> IF p \in Segment(i, n) THEN c[p - i * n] ELSE buf[p]]

\* Per-element counters of a volume, one more for each element selected.
Touch(counts, dims, index) ==
  [p \in 1..Len(counts) |->
     counts[p] + (IF Selects(index, Unravel(p - 1, dims)) THEN 1 ELSE 0)]

\* self._iterator after a loop over it: it is a list, which a loop leaves
\* as it was.
AfterIteration(iterator) == iterator

\* A call in progress: status, the output buffer, the indexers visited so
\* far, the shapes met (slices handed to fwd; regions assigned to), and how
\* often each element of the volume was read (forward) or assigned (adjoint).
StartCall(buf, dims) ==
  [status |-> "ok", out |-> buf, visited |-> <<>>, handed |-> <<>>,
   touched |-> [p \in 1..Prod(dims) |-> 0]]

RECURSIVE MatvecLoop(_, _, _, _, _)
\* The loop of _matvec from slice i on; it stops at the first slice the
\* backend raises on.
MatvecLoop(o, vol, strict, i, acc) ==
  IF i >= Len(o.iterator) THEN acc
  ELSE
  LET index == o.iterator[i + 1]
      slice == GetItem(vol, index)
      seen  == [acc EXCEPT !.visited = Append(@, index),
                           !.handed = Append(@, slice.shape),
                           !.touched = Touch(@, o.dims, index)]
  IN  IF ~BackendAccepts(o.input_shape_2d, slice, strict)
      THEN [seen EXCEPT !.status = "error"]
      ELSE MatvecLoop(o, vol, strict, i + 1,
             [seen EXCEPT !.out = WriteSegment(@, i, o.output_len,
                                               BackendFwd(slice))])

\* FDCT._matvec(x)
Matvec_of(o, x, strict) ==
  MatvecLoop(o, Reshape(x, o.dims), strict, 0,
             StartCall([k \in 1..o.shape[1] |-> 0], o.dims))

RECURSIVE RmatvecLoop(_, _, _, _)
\* The loop of _rmatvec from slice i on; acc.out is inv_out's buffer. It
\* stops at the first assignment numpy cannot broadcast.
RmatvecLoop(o, x, i, acc) ==
  IF i >= Len(o.iterator) THEN acc
  ELSE
  LET index  == o.iterator[i + 1]
      val    == BackendInv(o.input_shape_2d, ReadSegment(x, i, o.output_len))
      region == KeptShape(o.dims, index)
      seen   == [acc EXCEPT !.visited = Append(@, index),
                            !.handed = Append(@, region)]
  IN  IF ~Broadcastable(val.shape, region)
      THEN [seen EXCEPT !.status = "error"]
      ELSE RmatvecLoop(o, x, i + 1,
             [seen EXCEPT !.out = SetItem(Reshape(@, o.dims), index, val).data,
                          !.touched = Touch(@, o.dims, index)])

\* FDCT._rmatvec(x)
Rmatvec_of(o, x) ==
  RmatvecLoop(o, x, 0, StartCall(RavelArr(Zeros(o.dims)), o.dims))

\* What the caller has after a call: no vector when the call raised.
Returned(kind, x, acc) ==
  [kind |-> kind, x |-> x, status |-> acc.status,
   out |-> IF acc.status = "ok" THEN acc.out ELSE <<>>,
   visited |-> acc.visited, handed |-> acc.handed, touched |-> acc.touched]

\* -------------------------------------------------------------- inputs
RECURSIVE Tuples(_, _)
\* All sequences of length n over set S.
Tuples(n, S) ==
  IF n = 0 THEN {<<>>} ELSE {<<h>> \o t : h \in S, t \in Tuples(n - 1, S)}

\* Volume shapes: 1..MaxNdim axes of extent 1..MaxDim, at most MaxVolume
\* elements.
DimsSet ==
  {d \in UNION {Tuples(n, 1..MaxDim) : n \in 1..MaxNdim} : Prod(d) <= MaxVolume}

\* Requested axes written as the source's comments write them: every pair
\* of axis numbers 0..ndim-1, repeats included, and every triple of
\* distinct axis numbers in every order.
PlainDirs(ndim) ==
  Tuples(2, 0..(ndim - 1))
    \cup {t \in Tuples(3, 0..(ndim - 1)) :
            t[1] # t[2] /\ t[1] # t[3] /\ t[2] # t[3]}

\* Every way of writing a request for a volume of ndim axes: every pair
\* and triple of axis numbers from one below the valid range to one above
\* it, and requests of an unsupported length (of which the code looks at
\* nothing but the length).
DirsSet(ndim) ==
  UNION {Tuples(n, (-ndim - 1)..ndim) : n \in {2, 3}}
    \cup Tuples(1, {0, -1}) \cup Tuples(4, {0, -1}) \cup {<<>>}

Classes == {"FDCT", "FDCT2D", "FDCT3D"}

\* One volume shape for each number of axes, of extents 1, 2, 1, 2, ...
ProbeDims(n) == [k \in 1..n |-> IF k % 2 = 1 THEN 1 ELSE 2]

\* The constructor calls made. The constructor's checks read len(dims) and
\* dirs and never an extent, so every class and every way of writing dirs
\* is tried on one shape for each number of axes, and every shape is tried
\* with the plain dirs.
Requests ==
  UNION {{[cls |-> "FDCT", dims |-> d, dirs |-> r] : r \in PlainDirs(Len(d))} :
           d \in DimsSet}
  \cup
  UNION {{[cls |-> c, dims |-> ProbeDims(n), dirs |-> r] :
            c \in Classes, r \in DirsSet(n)} : n \in 1..MaxNdim}

\* The test vector of n distinct entries.
Iota(n) == [k \in 1..n |-> k]

\* ---------------------------------------------------------------- state
VARIABLES
  req,    \* <<the constructor call made>>, until the operator is first used
  op,     \* <<operator>> once constructed, else <<>>
  err,    \* the exception the constructor raised, "none" if it returned
  last,   \* <<record of the latest forward/adjoint call>>, else <<>>
  first,  \* <<indexers visited by the first call>>, else <<>>
  ncalls  \* number of forward/adjoint calls made

vars == <<req, op, err, last, first, ncalls>>

Init ==
  /\ req \in {<<r>> : r \in Requests}
  /\ op = <<>>
  /\ err = "none"
  /\ last = <<>>
  /\ first = <<>>
  /\ ncalls = 0

\* The constructor call has been made and has not run yet.
Pending == req # <<>> /\ op = <<>> /\ err = "none"

\* The constructor call has run: it returned an operator or raised.
Constructed == req # <<>> /\ ~Pending

\* The pending constructor call runs.
Construct ==
  /\ Pending
  /\ LET r == Init_of(req[1].cls, req[1].dims, req[1].dirs)
     IN  /\ op' = r.op
         /\ err' = r.err
  /\ UNCHANGED <<req, last, first, ncalls>>

\* Bookkeeping shared by the two calls.
Called(rec) ==
  /\ last' = <<rec>>
  /\ first' = IF first = <<>> THEN <<rec.visited>> ELSE first
  /\ ncalls' = ncalls + 1
  /\ op' = <<[op[1] EXCEPT !.iterator = AfterIteration(@)]>>
  /\ req' = <<>>
  /\ UNCHANGED err

\* op.matvec(x) for a vector of prod(dims) entries.
Matvec ==
  /\ op # <<>>
  /\ ncalls < MaxCalls
  /\ \E strict \in BOOLEAN :
       LET x == Iota(op[1].shape[2])
       IN  Called(Returned("matvec", x, Matvec_of(op[1], x, strict)))

\* Vectors handed to the adjoint: the test vector, and the vector the
\* forward call just returned.
RmatvecInputs ==
  {Iota(op[1].shape[1])}
    \cup {last[k].out : k \in {j \in 1..Len(last) :
                                last[j].kind = "matvec" /\ last[j].status = "ok"}}

\* op.rmatvec(y) for a vector of shape[0] entries.
Rmatvec ==
  /\ op # <<>>
  /\ ncalls < MaxCalls
  /\ \E y \in RmatvecInputs :
       Called(Returned("rmatvec", y, Rmatvec_of(op[1], y)))

Next == Construct \/ Matvec \/ Rmatvec

Spec == Init /\ [][Next]_vars

\* ---------------------------------------------- the spec's vocabulary
\* These definitions state what spec.md says (sections 3 and 4); the
\* claims below compare the operator the code builds against them.

\* normalizeAxis: a negative axis counts from the end.
SpecNormalize(d, ndim) == IF d < 0 THEN d + ndim ELSE d

RECURSIVE Ascending(_)
\* The elements of a finite set of integers in ascending order.
Ascending(S) ==
  IF S = {} THEN <<>>
  ELSE LET m == CHOOSE x \in S : \A y \in S : x <= y
       IN  <<m>> \o Ascending(S \ {m})

\* Whether a sequence holds some value twice.
HasRepeat(s) == \E j, k \in 1..Len(s) : j < k /\ s[j] = s[k]

\* batchAxes: the ascending complement of the active axes.
BatchAxes(o) == Ascending({a \in 0..(Len(o.dims) - 1) : ~InSeq(a, o.dirs)})

\* The extents of the batch axes.
BatchDims(o) == [j \in 1..Len(BatchAxes(o)) |-> o.dims[BatchAxes(o)[j] + 1]]

\* batchSliceCount
BatchSliceCount(o) == Prod(BatchDims(o))

\* perSliceLength
PerSliceLength(o) == o.output_len

\* activeShape: dims at the active axes, in the caller's order.
ActiveShape(o) == [k \in 1..Len(o.dirs) |-> o.dims[o.dirs[k] + 1]]

\* The SliceAddress at linear position i: row-major over the batch axes,
\* the last batch axis varying fastest.
AddressOf(o, i) ==
  LET bd == BatchDims(o)
  IN  [j \in 1..Len(bd) |-> (i \div Prod(SubSeq(bd, j + 1, Len(bd)))) % bd[j]]

\* toIndexer: batch axes get the address's indices, active axes select all.
ToIndexer(o, addr) ==
  [a \in 1..Len(o.dims) |->
     IF InSeq(a - 1, o.dirs) THEN SliceNone
     ELSE addr[CHOOSE j \in 1..Len(addr) : BatchAxes(o)[j] = a - 1]]

\* Segment i of vector v.
SegmentOf(o, v, i) ==
  SubSeq(v, i * PerSliceLength(o) + 1, (i + 1) * PerSliceLength(o))

\* The backend's forward transform of slice i of the volume x.
ExpectedSegment(o, x, i) ==
  BackendFwd(GetItem(Reshape(x, o.dims), ToIndexer(o, AddressOf(o, i))))

\* The volume the adjoint is to return for y: the element at multi-index m
\* comes from the inverse transform of the segment of m's slice, at m's
\* row-major place within the slice.
ExpectedVolume(o, y) ==
  LET active == Ascending({o.dirs[k] : k \in 1..Len(o.dirs)})
      region == [j \in 1..Len(active) |-> o.dims[active[j] + 1]]
  IN  [p \in 1..Prod(o.dims) |->
         LET m    == Unravel(p - 1, o.dims)
             addr == [j \in 1..Len(BatchAxes(o)) |-> m[BatchAxes(o)[j] + 1]]
             i    == Ravel(addr, BatchDims(o))
             sub  == [j \in 1..Len(active) |-> m[active[j] + 1]]
         IN  BackendInv(ActiveShape(o), SegmentOf(o, y, i)).data[
               Ravel(sub, region) + 1]]

\* The forward and adjoint calls among the latest call.
Calls(kind) == {k \in 1..Len(last) : last[k].kind = kind}
Returns(kind) == {k \in Calls(kind) : last[k].status = "ok"}

\* --------------------------------------------------------------- claims

\* C1: forward apply of every constructed operator returns, for every x, a
\* vector whose segment i is the backend's forward transform of the slice
\* at the i-th batch address in row-major order.
C1_ForwardSegments ==
  \A k \in Calls("matvec") :
    /\ Len(last[k].out) = BatchSliceCount(op[1]) * PerSliceLength(op[1])
    /\ \A i \in 0..(BatchSliceCount(op[1]) - 1) :
         SegmentOf(op[1], last[k].out, i) = ExpectedSegment(op[1], last[k].x, i)

\* C1 on the forward calls that return: the same layout.
C1_ForwardSegmentsWhenReturned ==
  \A k \in Returns("matvec") :
    /\ Len(last[k].out) = BatchSliceCount(op[1]) * PerSliceLength(op[1])
    /\ \A i \in 0..(BatchSliceCount(op[1]) - 1) :
         SegmentOf(op[1], last[k].out, i) = ExpectedSegment(op[1], last[k].x, i)

\* C2: adjoint apply of every constructed operator reads segment i, inverts
\* it and writes it at the slice address forward apply read for segment i,
\* and returns the row-major flattening of the volume so filled.
C2_AdjointMirrorsForward ==
  \A k \in Calls("rmatvec") :
    /\ Len(last[k].out) = Prod(op[1].dims)
    /\ last[k].out = ExpectedVolume(op[1], last[k].x)

\* C2 on the adjoint calls that return.
C2_AdjointMirrorsForwardWhenReturned ==
  \A k \in Returns("rmatvec") :
    /\ Len(last[k].out) = Prod(op[1].dims)
    /\ last[k].out = ExpectedVolume(op[1], last[k].x)

\* The declared shape of a constructed operator is
\* (batchSliceCount * perSliceLength, prod(dims)).
ShapeAsDeclared ==
  op # <<>> =>
    op[1].shape = <<BatchSliceCount(op[1]) * PerSliceLength(op[1]),
                    Prod(op[1].dims)>>

\* C3: every constructed operator declares that shape, its forward apply
\* returns a vector of shape[0] entries and its adjoint apply one of
\* prod(dims) entries.
C3_ShapeAndLengths ==
  /\ ShapeAsDeclared
  /\ \A k \in Calls("matvec") :
       Len(last[k].out) = BatchSliceCount(op[1]) * PerSliceLength(op[1])
  /\ \A k \in Calls("rmatvec") : Len(last[k].out) = Prod(op[1].dims)

\* C3 on the calls that return.
C3_ShapeAndLengthsWhenReturned ==
  /\ ShapeAsDeclared
  /\ \A k \in Returns("matvec") :
       Len(last[k].out) = BatchSliceCount(op[1]) * PerSliceLength(op[1])
  /\ \A k \in Returns("rmatvec") : Len(last[k].out) = Prod(op[1].dims)

\* The request's axes after normalisation.
Normalized(r) == [k \in 1..Len(r.dirs) |-> SpecNormalize(r.dirs[k], Len(r.dims))]

\* Whether a request has a wrong number of axes or an axis out of range.
Malformed(r) ==
  \/ Len(r.dirs) \notin {2, 3}
  \/ \E k \in 1..Len(r.dirs) : Normalized(r)[k] \notin 0..(Len(r.dims) - 1)

\* C4: a request whose axes repeat after normalisation is refused, so the
\* active axes of every constructed operator are pairwise distinct and in
\* range.
C4_DuplicateAxisRejected ==
  /\ Constructed /\ ~Malformed(req[1]) /\ HasRepeat(Normalized(req[1]))
       => err # "none" /\ op = <<>>
  /\ op # <<>> =>
       /\ ~HasRepeat(op[1].dirs)
       /\ \A k \in 1..Len(op[1].dirs) : op[1].dirs[k] \in 0..(Len(op[1].dims) - 1)

\* C5: a request with a number of axes other than 2 or 3, or with an axis
\* out of range after normalisation, raises in the constructor: there is no
\* operator, and without one no slice reaches the backend.
C5_MalformedRequestRaises ==
  /\ Constructed /\ Malformed(req[1]) => err # "none" /\ op = <<>>
  /\ err # "none" => op = <<>>
  /\ op = <<>> => last = <<>> /\ ncalls = 0

C5_Witness ==
  /\ Constructed
  /\ Len(req[1].dims) = 2
  /\ req[1].dirs = <<2, -3>>
  /\ err = "AxisError"
  /\ op = <<>>

\* The axes at which the stored indexers hold an index, not a slice.
IndexedAxes(o) ==
  {a \in 0..(Len(o.dims) - 1) :
     \A k \in 1..Len(o.iterator) : o.iterator[k][a + 1] # SliceNone}

\* C6: the stored active axes are the requested ones, each normalised, in
\* the caller's order; the batch axes are the ascending complement; and
\* dirs = (-2, -1) on a 3-D volume gives the operator of dirs = (1, 2),
\* with active axes (1, 2) and batch axis 0.
C6_AxisClassification ==
  Constructed /\ op # <<>> =>
    /\ op[1].dirs = Normalized(req[1])
    /\ op[1].iterator # <<>>
    /\ \A k \in 1..Len(op[1].iterator), a \in 1..Len(op[1].dims) :
         op[1].iterator[k][a] = SliceNone <=> (a - 1) \notin IndexedAxes(op[1])
    /\ Ascending(IndexedAxes(op[1])) = BatchAxes(op[1])
    /\ Len(req[1].dims) = 3 /\ req[1].dirs = <<-2, -1>> =>
         /\ op[1].dirs = <<1, 2>>
         /\ IndexedAxes(op[1]) = {0}
         /\ op = FDCT_init(req[1].dims, <<1, 2>>).op

C6_Witness ==
  /\ Constructed
  /\ Len(req[1].dims) = 3
  /\ req[1].dirs = <<-2, -1>>
  /\ op # <<>>
  /\ op[1].dirs = <<1, 2>>

\* All segments of the operator's output vector.
Segments(o) == {Segment(i, o.output_len) : i \in 0..(Len(o.iterator) - 1)}

RECURSIVE WriteBackwards(_, _, _, _)
\* The segments segs written into buf from slice i down to slice 0. (The
\* one-element sets bind each intermediate buffer as a value, so that it is
\* computed once.)
WriteBackwards(segs, i, n, buf) ==
  IF i < 0 THEN buf
  ELSE CHOOSE r \in {WriteBackwards(segs, i - 1, n, w) :
                       w \in {WriteSegment(buf, i, n, segs[i])}} : TRUE

\* C7: the segments forward apply writes and adjoint apply reads are as
\* many as batchSliceCount, pairwise disjoint, and cover [0, shape[0])
\* exactly; so two writes commute and the slices written in the opposite
\* order give the vector forward apply returned.
C7_SegmentsPartitionOutput ==
  op # <<>> =>
    \A o \in {op[1]} :
    \A n \in {BatchSliceCount(o)}, L \in {PerSliceLength(o)},
       z \in {[p \in 1..o.shape[1] |-> 0]} :
      /\ Len(o.iterator) = n
      /\ \A i, j \in 0..(n - 1) : i # j => Segment(i, L) \cap Segment(j, L) = {}
      /\ UNION Segments(o) = 1..o.shape[1]
      /\ \A k \in Returns("matvec") :
         \A segs \in {[i \in 0..(n - 1) |-> ExpectedSegment(o, last[k].x, i)]} :
           /\ last[k].out = WriteBackwards(segs, n - 1, L, z)
           /\ \A i, j \in 0..(n - 1) :
                i # j =>
                  \A a \in {WriteSegment(z, i, L, segs[i])},
                     b \in {WriteSegment(z, j, L, segs[j])} :
                    WriteSegment(a, j, L, segs[j]) = WriteSegment(b, i, L, segs[i])

C7_Witness ==
  /\ op # <<>>
  /\ Len(BatchAxes(op[1])) = 2
  /\ BatchSliceCount(op[1]) = 4
  /\ Returns("matvec") # {}

\* C8: every slice handed to the backend by forward apply, and every
\* region adjoint apply assigns the reshaped inverse to, has the shape
\* activeShape the backend was configured with.
C8_SlicesHaveActiveShape ==
  \A k \in 1..Len(last) :
    \A h \in 1..Len(last[k].handed) : last[k].handed[h] = ActiveShape(op[1])

\* C9: calls leave the configuration as the constructor made it, and every
\* call visits batchSliceCount slice addresses, in the order of the first
\* call.
C9_ConfigurationFixedAndRestartable ==
  op # <<>> =>
    /\ op = FDCT_init(op[1].dims, op[1].dirs).op
    /\ \A k \in 1..Len(last) :
         /\ Len(last[k].visited) = BatchSliceCount(op[1])
         /\ last[k].visited = first[1]

\* C9 on the calls that return.
C9_RestartableWhenReturned ==
  op # <<>> =>
    /\ op = FDCT_init(op[1].dims, op[1].dirs).op
    /\ \A k \in 1..Len(last) :
         last[k].status = "ok" =>
           /\ Len(last[k].visited) = BatchSliceCount(op[1])
           /\ last[k].visited = [i \in 1..BatchSliceCount(op[1]) |->
                                   ToIndexer(op[1], AddressOf(op[1], i - 1))]

\* C10: the indexers stored at construction partition the volume: every
\* multi-index of dims is selected by exactly one of them. So a forward
\* apply that ran through has read every element once, and a completed
\* adjoint apply has assigned every element once.
C10_IndexersPartitionVolume ==
  op # <<>> =>
    /\ \A p \in 1..Prod(op[1].dims) :
         Cardinality({k \in 1..Len(op[1].iterator) :
                        Selects(op[1].iterator[k], Unravel(p - 1, op[1].dims))}) = 1
    /\ \A k \in 1..Len(last) :
         last[k].status = "ok" =>
           \A p \in 1..Prod(op[1].dims) : last[k].touched[p] = 1

C10_Witness ==
  /\ op # <<>>
  /\ BatchDims(op[1]) = <<2, 2>>
  /\ Returns("rmatvec") # {}
  /\ \A p \in 1..Prod(op[1].dims) : last[1].touched[p] = 1

====
